---- MODULE Spec2Model ----
(***************************************************************************)
(* Model of polkadot/xcm/xcm-builder/src/nonfungibles_adapter.rs:          *)
(* NonFungiblesTransferAdapter, NonFungiblesMutateAdapter and the          *)
(* delegating NonFungiblesAdapter, driven by an XCM executor that may call *)
(* any TransactAsset operation with any asset and location.                *)
(*                                                                         *)
(* Option<T> is a sequence of length at most one: None is << >> and        *)
(* Some(x) is <<x>>.  The nonfungibles ledger (Assets), the Matcher and    *)
(* the AccountIdConverter are generic parameters of the adapters; they are *)
(* modelled by their interface contracts.                                  *)
(***************************************************************************)
EXTENDS Integers, Sequences, FiniteSets, TLC

\* ------------------------------------------------------------------ bounds
NumAccounts == 2
MaxOps == 2

\* ------------------------------------------------------------------ values
None == << >>
Some(x) == <<x>>

Accounts == 1..NumAccounts
\* collection 1 is configured Local, collection 2 NonLocal, collection 3 is not checked
Collections == 1..3
Items == {<<class, 42>> : class \in Collections}
\* asset descriptors (`what: &Asset`); descriptor 0 is one the Matcher does not handle
AssetIds == 0..3
\* locations (`who`, `to`, `from`, `origin`, `dest`); location 0 converts to no account
Locations == 0..NumAccounts

VARIABLES
  owner,            \* Assets::owner: item -> Option<AccountId>
  CheckingAccount,  \* CheckingAccount::get(): Option<AccountId>
  debug_assertions, \* build profile: are debug_assert! statements compiled in
  call,             \* the last TransactAsset call: op, what, who, the answer the ledger's
                    \* can_transfer has for it, and whether its validator just returned Ok
  result,           \* what that call returned
  ok,               \* `ok` of the mint/burn inside the last check_in/check_out
  aborted,          \* a debug_assert! has panicked
  round,            \* observer: progress of a check-out/check-in round on one asset
  watched,          \* observer: the item whose committed check-ins/outs are counted
  checked_in,       \* observer: committed check_ins of the watched item
  checked_out       \* observer: committed check_outs of the watched item

vars == <<owner, CheckingAccount, debug_assertions, call, result, ok, aborted, round,
          watched, checked_in, checked_out>>
config == <<CheckingAccount, debug_assertions>>
counters == <<watched, checked_in, checked_out>>

\* ------------------------------------------------- external collaborators
\* Matcher::matches_nonfungibles(what) -> Result<(CollectionId, ItemId), Error>
matches_nonfungibles(what) ==
  IF what \in Collections THEN Some(<<what, 42>>) ELSE None

\* AccountIdConverter::convert_location(location) -> Option<AccountId>
convert_location(location) ==
  IF location \in Accounts THEN Some(location) ELSE None

\* CheckAsset::asset_checking(&class) -> Option<MintLocation>
asset_checking(class) ==
  CASE class = 1 -> Some("Local")
    [] class = 2 -> Some("NonLocal")
    [] OTHER -> None

\* nonfungibles::Mutate::mint_into: succeeds iff the item is unowned
mint_into(own, item, who) ==
  IF own[item] = None
    THEN [is_ok |-> TRUE, owner |-> [own EXCEPT ![item] = Some(who)]]
    ELSE [is_ok |-> FALSE, owner |-> own]

\* nonfungibles::Mutate::burn: succeeds iff the item is owned, by maybe_check_owner if given
burn(own, item, maybe_check_owner) ==
  IF own[item] # None /\ (maybe_check_owner = None \/ own[item] = maybe_check_owner)
    THEN [is_ok |-> TRUE, owner |-> [own EXCEPT ![item] = None]]
    ELSE [is_ok |-> FALSE, owner |-> own]

\* nonfungibles::Transfer::transfer: succeeds iff the item is owned and transferable;
\* the source account is not an argument
transfer(own, item, destination, transferable) ==
  IF own[item] # None /\ transferable
    THEN [is_ok |-> TRUE, owner |-> [own EXCEPT ![item] = Some(destination)]]
    ELSE [is_ok |-> FALSE, owner |-> own]

\* ------------------------------------------- NonFungiblesMutateAdapter helpers
\* mutant: can_accrue_checked fails with the error of can_reduce_checked
can_accrue_checked_wrong_error(own, item) ==
  IF own[item] # None THEN "NotWithdrawable" ELSE "Ok"

can_accrue_checked(own, item) ==
  IF own[item] # None THEN "NotDepositable" ELSE "Ok"

\* mutant: the owner test of can_reduce_checked is left out
can_reduce_checked_any_owner(own, item, transferable) ==
  IF CheckingAccount # None
    THEN IF ~transferable THEN "NotWithdrawable" ELSE "Ok"
    ELSE "Ok"

can_reduce_checked(own, item, transferable) ==
  IF CheckingAccount # None
    THEN IF own[item] # CheckingAccount THEN "NotWithdrawable"
         ELSE IF ~transferable THEN "NotWithdrawable"
         ELSE "Ok"
    ELSE "Ok"

accrue_checked(own, item) ==
  IF CheckingAccount # None
    THEN mint_into(own, item, CheckingAccount[1])
    ELSE [is_ok |-> TRUE, owner |-> own]

\* mutant: the burn of reduce_checked is left out
reduce_checked_no_burn(own, item) ==
  [is_ok |-> own[item] # None, owner |-> own]

reduce_checked(own, item) ==
  burn(own, item, None)

\* `debug_assert!(ok, ..)`: panics iff the build has debug assertions and ok is false
debug_assert(cond) == debug_assertions /\ ~cond

NoChange(own) == [is_ok |-> TRUE, owner |-> own]

\* --------------------------------------------------- TransactAsset operations
\* mutant: transfer_asset mints into the destination, as deposit_asset does
transfer_asset_mints(own, what, to, transferable) ==
  LET m == matches_nonfungibles(what)
      destination == convert_location(to)
  IN  IF m = None THEN [result |-> "AssetNotHandled", owner |-> own]
      ELSE IF destination = None THEN [result |-> "AccountIdConversionFailed", owner |-> own]
      ELSE LET r == mint_into(own, m[1], destination[1])
           IN  IF r.is_ok THEN [result |-> "Ok", owner |-> r.owner]
               ELSE [result |-> "FailedToTransactAsset", owner |-> own]

\* NonFungiblesTransferAdapter::transfer_asset; `from` and `context` are only traced and
\* are no inputs of the model, like `origin`, `dest` and `context` of the other operations
transfer_asset(own, what, to, transferable) ==
  LET m == matches_nonfungibles(what)
      destination == convert_location(to)
  IN  IF m = None THEN [result |-> "AssetNotHandled", owner |-> own]
      ELSE IF destination = None THEN [result |-> "AccountIdConversionFailed", owner |-> own]
      ELSE LET r == transfer(own, m[1], destination[1], transferable)
           IN  IF r.is_ok THEN [result |-> "Ok", owner |-> r.owner]
               ELSE [result |-> "FailedToTransactAsset", owner |-> own]

\* mutant: the Local and NonLocal arms of can_check_in are exchanged
can_check_in_arms_exchanged(own, what, transferable) ==
  LET m == matches_nonfungibles(what)
  IN  IF m = None THEN "AssetNotHandled"
      ELSE CASE asset_checking(m[1][1]) = Some("Local") ->
                  can_accrue_checked(own, m[1])
             [] asset_checking(m[1][1]) = Some("NonLocal") ->
                  can_reduce_checked(own, m[1], transferable)
             [] OTHER -> "Ok"

can_check_in(own, what, transferable) ==
  LET m == matches_nonfungibles(what)
  IN  IF m = None THEN "AssetNotHandled"
      ELSE CASE asset_checking(m[1][1]) = Some("Local") ->
                  can_reduce_checked(own, m[1], transferable)
             [] asset_checking(m[1][1]) = Some("NonLocal") ->
                  can_accrue_checked(own, m[1])
             [] OTHER -> "Ok"

\* mutant: the Local and NonLocal arms of check_in are exchanged
check_in_arms_exchanged(own, what) ==
  LET m == matches_nonfungibles(what)
  IN  IF m # None
        THEN CASE asset_checking(m[1][1]) = Some("Local") -> accrue_checked(own, m[1])
               [] asset_checking(m[1][1]) = Some("NonLocal") -> reduce_checked(own, m[1])
               [] OTHER -> NoChange(own)
        ELSE NoChange(own)

\* mutant: check_in reduces for every collection that is not NonLocal
check_in_reduces_unchecked(own, what) ==
  LET m == matches_nonfungibles(what)
  IN  IF m # None
        THEN CASE asset_checking(m[1][1]) = Some("NonLocal") -> accrue_checked(own, m[1])
               [] OTHER -> reduce_checked(own, m[1])
        ELSE NoChange(own)

check_in(own, what) ==
  LET m == matches_nonfungibles(what)
  IN  IF m # None
        THEN CASE asset_checking(m[1][1]) = Some("Local") -> reduce_checked(own, m[1])
               [] asset_checking(m[1][1]) = Some("NonLocal") -> accrue_checked(own, m[1])
               [] OTHER -> NoChange(own)
        ELSE NoChange(own)

\* mutant: the Local and NonLocal arms of can_check_out are exchanged
can_check_out_arms_exchanged(own, what, transferable) ==
  LET m == matches_nonfungibles(what)
  IN  IF m = None THEN "AssetNotHandled"
      ELSE CASE asset_checking(m[1][1]) = Some("Local") ->
                  can_reduce_checked(own, m[1], transferable)
             [] asset_checking(m[1][1]) = Some("NonLocal") ->
                  can_accrue_checked(own, m[1])
             [] OTHER -> "Ok"

can_check_out(own, what, transferable) ==
  LET m == matches_nonfungibles(what)
  IN  IF m = None THEN "AssetNotHandled"
      ELSE CASE asset_checking(m[1][1]) = Some("Local") ->
                  can_accrue_checked(own, m[1])
             [] asset_checking(m[1][1]) = Some("NonLocal") ->
                  can_reduce_checked(own, m[1], transferable)
             [] OTHER -> "Ok"

\* mutant: check_out takes an asset the Matcher rejects for a failed commit
check_out_unmatched_fails(own, what) ==
  LET m == matches_nonfungibles(what)
  IN  IF m # None
        THEN CASE asset_checking(m[1][1]) = Some("Local") -> accrue_checked(own, m[1])
               [] asset_checking(m[1][1]) = Some("NonLocal") -> reduce_checked(own, m[1])
               [] OTHER -> NoChange(own)
        ELSE [is_ok |-> FALSE, owner |-> own]

\* mutant: the Local and NonLocal arms of check_out are exchanged
check_out_arms_exchanged(own, what) ==
  LET m == matches_nonfungibles(what)
  IN  IF m # None
        THEN CASE asset_checking(m[1][1]) = Some("Local") -> reduce_checked(own, m[1])
               [] asset_checking(m[1][1]) = Some("NonLocal") -> accrue_checked(own, m[1])
               [] OTHER -> NoChange(own)
        ELSE NoChange(own)

check_out(own, what) ==
  LET m == matches_nonfungibles(what)
  IN  IF m # None
        THEN CASE asset_checking(m[1][1]) = Some("Local") -> accrue_checked(own, m[1])
               [] asset_checking(m[1][1]) = Some("NonLocal") -> reduce_checked(own, m[1])
               [] OTHER -> NoChange(own)
        ELSE NoChange(own)

\* mutant: deposit_asset mints the item of the next collection
deposit_asset_next_class(own, what, who) ==
  LET m == matches_nonfungibles(what)
      account == convert_location(who)
  IN  IF m = None THEN [result |-> "AssetNotHandled", owner |-> own]
      ELSE IF account = None THEN [result |-> "AccountIdConversionFailed", owner |-> own]
      ELSE LET r == mint_into(own, <<(m[1][1] % 3) + 1, m[1][2]>>, account[1])
           IN  IF r.is_ok THEN [result |-> "Ok", owner |-> r.owner]
               ELSE [result |-> "FailedToTransactAsset", owner |-> own]

\* mutant: deposit_asset converts the location before it matches the asset
deposit_asset_account_first(own, what, who) ==
  LET account == convert_location(who)
      m == matches_nonfungibles(what)
  IN  IF account = None THEN [result |-> "AccountIdConversionFailed", owner |-> own]
      ELSE IF m = None THEN [result |-> "AssetNotHandled", owner |-> own]
      ELSE LET r == mint_into(own, m[1], account[1])
           IN  IF r.is_ok THEN [result |-> "Ok", owner |-> r.owner]
               ELSE [result |-> "FailedToTransactAsset", owner |-> own]

\* mutant: deposit_asset validates the accrual first when teleports are tracked
deposit_asset_checked(own, what, who) ==
  LET m == matches_nonfungibles(what)
      account == convert_location(who)
  IN  IF m = None THEN [result |-> "AssetNotHandled", owner |-> own]
      ELSE IF account = None THEN [result |-> "AccountIdConversionFailed", owner |-> own]
      ELSE IF /\ asset_checking(m[1][1]) # None
              /\ CheckingAccount # None
              /\ can_accrue_checked(own, m[1]) # "Ok"
        THEN [result |-> can_accrue_checked(own, m[1]), owner |-> own]
      ELSE LET r == mint_into(own, m[1], account[1])
           IN  IF r.is_ok THEN [result |-> "Ok", owner |-> r.owner]
               ELSE [result |-> "FailedToTransactAsset", owner |-> own]

deposit_asset(own, what, who) ==
  LET m == matches_nonfungibles(what)
      account == convert_location(who)
  IN  IF m = None THEN [result |-> "AssetNotHandled", owner |-> own]
      ELSE IF account = None THEN [result |-> "AccountIdConversionFailed", owner |-> own]
      ELSE LET r == mint_into(own, m[1], account[1])
           IN  IF r.is_ok THEN [result |-> "Ok", owner |-> r.owner]
               ELSE [result |-> "FailedToTransactAsset", owner |-> own]

\* mutant: withdraw_asset matches the asset before it converts the location
withdraw_asset_matcher_first(own, what, who) ==
  LET m == matches_nonfungibles(what)
      account == convert_location(who)
  IN  IF m = None THEN [result |-> "AssetNotHandled", owner |-> own]
      ELSE IF account = None THEN [result |-> "AccountIdConversionFailed", owner |-> own]
      ELSE LET r == burn(own, m[1], account)
           IN  IF r.is_ok THEN [result |-> "Ok", owner |-> r.owner]
               ELSE [result |-> "FailedToTransactAsset", owner |-> own]

withdraw_asset(own, what, who) ==
  LET account == convert_location(who)
      m == matches_nonfungibles(what)
  IN  IF account = None THEN [result |-> "AccountIdConversionFailed", owner |-> own]
      ELSE IF m = None THEN [result |-> "AssetNotHandled", owner |-> own]
      ELSE LET r == burn(own, m[1], account)
           IN  IF r.is_ok THEN [result |-> "Ok", owner |-> r.owner]
               ELSE [result |-> "FailedToTransactAsset", owner |-> own]

\* ------------------------------------------------------------------ observers
Validators == {"can_check_in", "can_check_out"}
Commits == {"check_in", "check_out"}
OutIn == <<"can_check_out", "check_out", "can_check_in", "check_in", "can_check_in">>
InOut == <<"can_check_in", "check_in", "can_check_out", "check_out">>
NoRound == [kind |-> "none", what |-> 0, pre |-> None, results |-> << >>]

\* The owner of the item `what` denotes, None if it denotes none.
OwnerOf(own, what) ==
  IF matches_nonfungibles(what) = None THEN None ELSE own[matches_nonfungibles(what)[1]]

\* `round` follows consecutive calls on one asset through OutIn or InOut: `pre` is the
\* owner of the item when the round began, `results` what each call of it returned.
\* A deposit_asset of the asset right after can_check_in and check_in is followed too,
\* as a round of kind "in_deposit".
RoundStep(op, what, res) ==
  LET continues(kind, path) ==
        /\ round.kind = kind /\ round.what = what
        /\ Len(round.results) < Len(path) /\ path[Len(round.results) + 1] = op
  IN  IF continues("out_in", OutIn) \/ continues("in_out", InOut)
        THEN [round EXCEPT !.results = Append(@, res)]
      ELSE IF /\ round.kind = "in_out" /\ round.what = what
              /\ Len(round.results) = 2 /\ op = "deposit_asset"
        THEN [round EXCEPT !.kind = "in_deposit", !.results = Append(@, res)]
      ELSE IF op \in Validators
        THEN [kind |-> IF op = "can_check_out" THEN "out_in" ELSE "in_out",
              what |-> what, pre |-> OwnerOf(owner, what), results |-> <<res>>]
      ELSE NoRound

\* Was the last call the validator of commit `op` on `what`, returning Ok?
JustValidated(op, what) ==
  /\ call.op = (IF op = "check_in" THEN "can_check_in" ELSE "can_check_out")
  /\ call.what = what
  /\ result = "Ok"

\* ------------------------------------------------------------------ actions
Returns(op, what, who, t, validated, res, own, is_ok, panics) ==
  /\ ~aborted
  /\ call' = [op |-> op, what |-> what, who |-> who, can_transfer |-> t,
              validated |-> validated]
  /\ result' = res
  /\ owner' = own
  /\ ok' = is_ok
  /\ aborted' = panics
  /\ UNCHANGED config

TransferAsset(what, to, t) ==
  LET r == transfer_asset(owner, what, to, t)
  IN  Returns("transfer_asset", what, Some(to), Some(t), FALSE, r.result, r.owner,
              TRUE, FALSE)

\* mutant: can_check_in commits the check-in when it returns Ok
CanCheckIn_commits(what, t) ==
  Returns("can_check_in", what, None, Some(t), FALSE, can_check_in(owner, what, t),
          IF can_check_in(owner, what, t) = "Ok" THEN check_in(owner, what).owner
          ELSE owner,
          TRUE, FALSE)

CanCheckIn(what, t) ==
  Returns("can_check_in", what, None, Some(t), FALSE, can_check_in(owner, what, t),
          owner, TRUE, FALSE)

CanCheckOut(what, t) ==
  Returns("can_check_out", what, None, Some(t), FALSE, can_check_out(owner, what, t),
          owner, TRUE, FALSE)

CheckIn(what) ==
  LET r == check_in(owner, what)
  IN  Returns("check_in", what, None, None, JustValidated("check_in", what),
              IF debug_assert(r.is_ok) THEN "panic" ELSE "()", r.owner, r.is_ok,
              debug_assert(r.is_ok))

CheckOut(what) ==
  LET r == check_out(owner, what)
  IN  Returns("check_out", what, None, None, JustValidated("check_out", what),
              IF debug_assert(r.is_ok) THEN "panic" ELSE "()", r.owner, r.is_ok,
              debug_assert(r.is_ok))

DepositAsset(what, who) ==
  LET r == deposit_asset(owner, what, who)
  IN  Returns("deposit_asset", what, Some(who), None, FALSE, r.result, r.owner,
              TRUE, FALSE)

WithdrawAsset(what, who) ==
  LET r == withdraw_asset(owner, what, who)
  IN  Returns("withdraw_asset", what, Some(who), None, FALSE, r.result, r.owner,
              TRUE, FALSE)

\* ------------------------------------------------------------ specifications
InitLedger ==
  /\ owner = [item \in Items |-> None]
  /\ debug_assertions \in BOOLEAN
  /\ call = [op |-> "none", what |-> 0, who |-> None, can_transfer |-> None,
             validated |-> FALSE]
  /\ result = "none"
  /\ ok = TRUE
  /\ aborted = FALSE
  /\ round = NoRound
  /\ checked_in = 0
  /\ checked_out = 0

Init ==
  /\ InitLedger
  /\ CheckingAccount \in {None} \cup {Some(account) : account \in Accounts}
  /\ watched = None

\* The observers of a run in which the executor is free: only `round` moves.
Observed ==
  /\ round' = RoundStep(call'.op, call'.what, result')
  /\ UNCHANGED counters

\* The executor may call any operation with any asset and any location.
Next ==
  \/ \E what \in AssetIds, to \in Locations, t \in BOOLEAN :
       TransferAsset(what, to, t) /\ Observed
  \/ \E what \in AssetIds, t \in BOOLEAN : CanCheckIn(what, t) /\ Observed
  \/ \E what \in AssetIds : CheckIn(what) /\ Observed
  \/ \E what \in AssetIds, t \in BOOLEAN : CanCheckOut(what, t) /\ Observed
  \/ \E what \in AssetIds : CheckOut(what) /\ Observed
  \/ \E what \in AssetIds, who \in Locations : DepositAsset(what, who) /\ Observed
  \/ \E what \in AssetIds, who \in Locations : WithdrawAsset(what, who) /\ Observed

Spec == Init /\ [][Next]_vars

\* The executor follows the two-phase protocol with a checking account configured:
\* check_in / check_out only immediately after its validator returned Ok for the same
\* asset, and neither deposit_asset nor transfer_asset is given a location that converts
\* to the checking account.  The check-ins and check-outs of one tracked item are counted.
InitProtocol ==
  /\ InitLedger
  /\ CheckingAccount \in {Some(account) : account \in Accounts}
  /\ watched \in {Some(item) : item \in {i \in Items : asset_checking(i[1]) # None}}

Counts(what, counter) ==
  IF matches_nonfungibles(what) = watched THEN counter + 1 ELSE counter

NextProtocol ==
  \/ \E what \in AssetIds, to \in Locations, t \in BOOLEAN :
       /\ convert_location(to) # CheckingAccount
       /\ TransferAsset(what, to, t)
       /\ UNCHANGED <<round, counters>>
  \/ \E what \in AssetIds, t \in BOOLEAN :
       CanCheckIn(what, t) /\ UNCHANGED <<round, counters>>
  \/ \E what \in AssetIds :
       /\ JustValidated("check_in", what)
       /\ Counts(what, checked_in) <= MaxOps
       /\ CheckIn(what)
       /\ checked_in' = Counts(what, checked_in)
       /\ UNCHANGED <<round, watched, checked_out>>
  \/ \E what \in AssetIds, t \in BOOLEAN :
       CanCheckOut(what, t) /\ UNCHANGED <<round, counters>>
  \/ \E what \in AssetIds :
       /\ JustValidated("check_out", what)
       /\ Counts(what, checked_out) <= MaxOps
       /\ CheckOut(what)
       /\ checked_out' = Counts(what, checked_out)
       /\ UNCHANGED <<round, watched, checked_in>>
  \/ \E what \in AssetIds, who \in Locations :
       /\ convert_location(who) # CheckingAccount
       /\ DepositAsset(what, who)
       /\ UNCHANGED <<round, counters>>
  \/ \E what \in AssetIds, who \in Locations :
       WithdrawAsset(what, who) /\ UNCHANGED <<round, counters>>

SpecProtocol == InitProtocol /\ [][NextProtocol]_vars

\* ---------------------------------------------------------------------- claims
\* Does `what` denote an item of a collection whose teleports are tracked?
Tracked(what) ==
  /\ matches_nonfungibles(what) # None
  /\ asset_checking(matches_nonfungibles(what)[1][1]) # None

ModeOf(what) ==
  IF matches_nonfungibles(what) = None THEN None
  ELSE asset_checking(matches_nonfungibles(what)[1][1])

\* C1: with the checking account set and a tracked collection, a check_in (check_out)
\* called immediately after can_check_in (can_check_out) returned Ok for the same asset
\* finds its ledger mint/burn succeeding: the debug assertion does not fire.
C1_CommitAfterValidatorSucceeds ==
  (/\ call.op \in Commits
   /\ call.validated
   /\ CheckingAccount # None
   /\ Tracked(call.what))
  => (ok /\ ~aborted)

C1_Witness ==
  /\ call.op = "check_in"
  /\ call.validated
  /\ CheckingAccount # None
  /\ ModeOf(call.what) = Some("Local")
  /\ ok
  /\ OwnerOf(owner, call.what) = None

\* C2: scenario on a Local collection with the checking account set and the item
\* unowned: can_check_out returns Ok; after check_out the checking account owns the
\* item; can_check_in (the ledger reporting the item transferable) returns Ok; after
\* check_in the item is unowned again; a further can_check_in returns NotWithdrawable.
C2_LocalScenario ==
  (/\ round.kind = "out_in"
   /\ ModeOf(round.what) = Some("Local")
   /\ CheckingAccount # None
   /\ round.pre = None)
  => LET n == Len(round.results)
         res == round.results
     IN  /\ n = 1 => result = "Ok"
         /\ n = 2 => (res[2] = "()" /\ OwnerOf(owner, round.what) = CheckingAccount)
         /\ (n = 3 /\ call.can_transfer = Some(TRUE)) => result = "Ok"
         /\ (n = 4 /\ res[3] = "Ok") => (res[4] = "()" /\ OwnerOf(owner, round.what) = None)
         /\ (n = 5 /\ res[3] = "Ok") => result = "NotWithdrawable"

C2_Witness ==
  /\ round.kind = "out_in"
  /\ ModeOf(round.what) = Some("Local")
  /\ CheckingAccount # None
  /\ round.pre = None
  /\ round.results = <<"Ok", "()", "Ok", "()", "NotWithdrawable">>
  /\ call.op = "can_check_in"
  /\ OwnerOf(owner, round.what) = None

\* A round of four calls on one asset of a collection configured `mode`, each commit
\* called after its validator returned Ok and none failing, checking account set.
RoundTrip(kind, mode) ==
  /\ round.kind = kind
  /\ ModeOf(round.what) = Some(mode)
  /\ CheckingAccount # None
  /\ round.results = <<"Ok", "()", "Ok", "()">>

\* C3: round trip.  On a Local item check_out then check_in, on a NonLocal item check_in
\* then check_out, each after its validator returned Ok, leaves the checking account's
\* ownership of the item as it was before the round.
C3_RoundTrip ==
  (RoundTrip("out_in", "Local") \/ RoundTrip("in_out", "NonLocal"))
  => ((OwnerOf(owner, round.what) = CheckingAccount) <=> (round.pre = CheckingAccount))

C3_Witness ==
  /\ RoundTrip("in_out", "NonLocal")
  /\ call.op = "check_out"
  /\ call.validated
  /\ ok

\* C4: Local conservation.  With the checking account set, from the item unowned, while
\* the executor follows the protocol and never deposits or transfers to the checking
\* account, the committed check_ins of a Local item never exceed its committed
\* check_outs (no more come in than have gone out).
C4_LocalConservation ==
  (/\ watched # None
   /\ CheckingAccount # None
   /\ asset_checking(watched[1][1]) = Some("Local"))
  => checked_in <= checked_out

C4_Witness ==
  /\ watched # None
  /\ CheckingAccount # None
  /\ asset_checking(watched[1][1]) = Some("Local")
  /\ call.op = "check_in"
  /\ matches_nonfungibles(call.what) = watched
  /\ checked_in = MaxOps
  /\ checked_out = MaxOps

\* C5: NonLocal conservation.  Under the same conditions the committed check_outs of a
\* NonLocal item never exceed its committed check_ins (no more go out than have come in).
C5_NonLocalConservation ==
  (/\ watched # None
   /\ CheckingAccount # None
   /\ asset_checking(watched[1][1]) = Some("NonLocal"))
  => checked_out <= checked_in

C5_Witness ==
  /\ watched # None
  /\ CheckingAccount # None
  /\ asset_checking(watched[1][1]) = Some("NonLocal")
  /\ call.op = "check_out"
  /\ matches_nonfungibles(call.what) = watched
  /\ checked_out = MaxOps
  /\ checked_in = MaxOps

\* C6: with the checking account unset, can_check_in and can_check_out return Ok for
\* every matched asset, every tracking mode and every ledger state.
C6_UnsetValidatorsOk ==
  (/\ CheckingAccount = None
   /\ call.op \in Validators
   /\ matches_nonfungibles(call.what) # None)
  => result = "Ok"

\* C7: with the checking account unset, check_in and check_out leave the ledger as it is.
C7_UnsetCommitsNoOp ==
  [][(CheckingAccount = None /\ call'.op \in Commits) => owner' = owner]_vars

\* C8: with the checking account set the validators follow the protocol table: on a Local
\* item can_check_in is Ok iff the checking account owns the item and it is transferable,
\* else NotWithdrawable, and can_check_out is Ok iff the item is unowned, else
\* NotDepositable; on a NonLocal item the two are exchanged.
C8_ValidatorTable ==
  (/\ CheckingAccount # None
   /\ call.op \in Validators
   /\ Tracked(call.what))
  => LET reduces == (call.op = "can_check_in") <=> (ModeOf(call.what) = Some("Local"))
         held == OwnerOf(owner, call.what)
     IN  IF reduces
           THEN result = IF held = CheckingAccount /\ call.can_transfer = Some(TRUE)
                           THEN "Ok" ELSE "NotWithdrawable"
           ELSE result = IF held = None THEN "Ok" ELSE "NotDepositable"

C8_Witness ==
  /\ CheckingAccount # None
  /\ call.op = "can_check_out"
  /\ ModeOf(call.what) = Some("NonLocal")
  /\ OwnerOf(owner, call.what) = CheckingAccount
  /\ call.can_transfer = Some(TRUE)
  /\ result = "Ok"

\* The items the checking account owns.
CheckedItems(own) ==
  {item \in Items : CheckingAccount # None /\ own[item] = CheckingAccount}

\* C9: the set of items the checking account owns changes only in check_in and check_out;
\* transfer_asset, deposit_asset and withdraw_asset leave it as it is.
C9_CheckedItemsOnlyByChecks ==
  [][call'.op \in {"transfer_asset", "deposit_asset", "withdraw_asset"}
       => CheckedItems(owner') = CheckedItems(owner)]_vars

\* C10: a mint or burn that fails inside check_in or check_out ends in a fatal abort; the
\* commit never returns normally with the failure ignored.
C10_FailedCommitAborts ==
  (call.op \in Commits /\ ~ok) => aborted

\* C11: on a matched asset of a collection that is not checked, can_check_in and
\* can_check_out return Ok in every ledger state, with the checking account set or
\* unset, and check_in and check_out leave the ledger as it is.
C11_UncheckedNoOp ==
  [][(matches_nonfungibles(call'.what) # None /\ ModeOf(call'.what) = None)
       => /\ call'.op \in Validators => result' = "Ok"
          /\ call'.op \in Commits => (owner' = owner /\ result' = "()")]_vars

C11_Witness ==
  /\ call.op = "check_in"
  /\ matches_nonfungibles(call.what) # None
  /\ ModeOf(call.what) = None
  /\ OwnerOf(owner, call.what) # None
  /\ CheckingAccount # None
  /\ result = "()"

\* The items that exist, and how many of a collection do.
OwnedItems(own) == {item \in Items : own[item] # None}
OwnedCount(own, class) == Cardinality({item \in OwnedItems(own) : item[1] = class})

\* C12: transfer neutrality.  transfer_asset leaves the set of owned items and the number
\* of owned items of each collection as they are; when it returns Ok the one change is
\* that the matched item is owned by the account the destination converts to.
C12_TransferNeutrality ==
  [][call'.op = "transfer_asset"
       => /\ OwnedItems(owner') = OwnedItems(owner)
          /\ \A class \in Collections : OwnedCount(owner', class) = OwnedCount(owner, class)
          /\ result' = "Ok"
               => owner' = [owner EXCEPT ![matches_nonfungibles(call'.what)[1]] =
                                            convert_location(call'.who[1])]]_vars

C12_Witness ==
  /\ call.op = "transfer_asset"
  /\ result = "Ok"
  /\ OwnerOf(owner, call.what) = convert_location(call.who[1])
  /\ Cardinality(OwnedItems(owner)) >= 2

\* C13: deposit_asset does not depend on the tracking configuration.  Its result and its
\* effect are given by the asset, the account the location converts to and the owner of
\* the item alone, in every collection (Local, NonLocal, not checked) and with the
\* checking account set or unset; and in one ledger state a deposit of an item of any
\* other collection held the same way ends the same way.
C13_DepositIgnoresTracking ==
  [][call'.op = "deposit_asset"
       => LET m == matches_nonfungibles(call'.what)
              account == convert_location(call'.who[1])
          IN  /\ IF m = None
                   THEN result' = "AssetNotHandled" /\ owner' = owner
                 ELSE IF account = None
                   THEN result' = "AccountIdConversionFailed" /\ owner' = owner
                 ELSE IF owner[m[1]] = None
                   THEN result' = "Ok" /\ owner' = [owner EXCEPT ![m[1]] = account]
                 ELSE result' = "FailedToTransactAsset" /\ owner' = owner
              /\ \A other \in AssetIds :
                   (/\ m # None
                    /\ matches_nonfungibles(other) # None
                    /\ OwnerOf(owner, other) = OwnerOf(owner, call'.what))
                   => LET r == deposit_asset(owner, other, call'.who[1])
                      IN  /\ r.result = result'
                          /\ OwnerOf(r.owner, other) = OwnerOf(owner', call'.what)]_vars

C13_Witness ==
  /\ call.op = "deposit_asset"
  /\ ModeOf(call.what) = Some("NonLocal")
  /\ CheckingAccount # None
  /\ result = "Ok"
  /\ OwnerOf(owner, call.what) = convert_location(call.who[1])
  /\ OwnerOf(owner, call.what) # CheckingAccount

Errors ==
  {"AssetNotHandled", "AccountIdConversionFailed", "FailedToTransactAsset",
   "NotDepositable", "NotWithdrawable"}

\* Does the ledger reject the mint or transfer that call `c` asks of it?
LedgerRejects(own, c) ==
  LET item == matches_nonfungibles(c.what)[1]
      account == convert_location(c.who[1])[1]
  IN  IF c.op = "deposit_asset" THEN ~mint_into(own, item, account).is_ok
      ELSE ~transfer(own, item, account, c.can_transfer[1]).is_ok

\* C14: error precedence in transfer_asset and deposit_asset.  An asset that is not
\* matched gives AssetNotHandled, also when the location converts to no account; a
\* matched asset with such a location gives AccountIdConversionFailed;
\* FailedToTransactAsset is returned only when both resolved and the ledger rejected
\* the call; with each of the three errors the ledger is as it was.
C14_ErrorPrecedence ==
  [][call'.op \in {"transfer_asset", "deposit_asset"}
       => LET m == matches_nonfungibles(call'.what)
              account == convert_location(call'.who[1])
          IN  /\ m = None => result' = "AssetNotHandled"
              /\ (m # None /\ account = None) => result' = "AccountIdConversionFailed"
              /\ result' = "FailedToTransactAsset"
                   => (m # None /\ account # None /\ LedgerRejects(owner, call'))
              /\ result' \in Errors => owner' = owner]_vars

C14_Witness ==
  /\ call.op = "transfer_asset"
  /\ matches_nonfungibles(call.what) = None
  /\ convert_location(call.who[1]) = None
  /\ result = "AssetNotHandled"

\* C15: withdraw_asset converts the location before it matches the asset: a location
\* that converts to no account gives AccountIdConversionFailed also when the asset is
\* not matched (where deposit_asset and transfer_asset give AssetNotHandled), and a
\* convertible location with an asset that is not matched gives AssetNotHandled.
C15_WithdrawAccountFirst ==
  call.op = "withdraw_asset"
  => LET m == matches_nonfungibles(call.what)
         account == convert_location(call.who[1])
     IN  /\ account = None => result = "AccountIdConversionFailed"
         /\ (account # None /\ m = None) => result = "AssetNotHandled"
         /\ (account = None /\ m = None)
              => /\ deposit_asset(owner, call.what, call.who[1]).result = "AssetNotHandled"
                 /\ \A t \in BOOLEAN :
                      transfer_asset(owner, call.what, call.who[1], t).result
                        = "AssetNotHandled"

C15_Witness ==
  /\ call.op = "withdraw_asset"
  /\ matches_nonfungibles(call.what) = None
  /\ convert_location(call.who[1]) = None
  /\ result = "AccountIdConversionFailed"

\* C16: on a NonLocal item with the checking account set, after can_check_in returned
\* Ok and check_in ran the checking account owns the item, and a deposit_asset of the
\* same asset to any account that follows returns FailedToTransactAsset and leaves the
\* checking account the owner.
C16_DepositAfterCheckIn ==
  (/\ round.kind \in {"in_out", "in_deposit"}
   /\ ModeOf(round.what) = Some("NonLocal")
   /\ CheckingAccount # None
   /\ Len(round.results) >= 2
   /\ round.results[1] = "Ok")
  => /\ (round.kind = "in_out" /\ Len(round.results) = 2)
          => (round.results[2] = "()" /\ OwnerOf(owner, round.what) = CheckingAccount)
     /\ (round.kind = "in_deposit" /\ convert_location(call.who[1]) # None)
          => (result = "FailedToTransactAsset"
              /\ OwnerOf(owner, round.what) = CheckingAccount)

C16_Witness ==
  /\ round.kind = "in_deposit"
  /\ ModeOf(round.what) = Some("NonLocal")
  /\ CheckingAccount # None
  /\ round.results = <<"Ok", "()", "FailedToTransactAsset">>
  /\ call.op = "deposit_asset"
  /\ convert_location(call.who[1]) # None
  /\ convert_location(call.who[1]) # CheckingAccount
  /\ OwnerOf(owner, round.what) = CheckingAccount

\* C17: an operation that returns an error (can_check_in, can_check_out, deposit_asset,
\* withdraw_asset, transfer_asset) leaves the ledger as it was, and can_check_in and
\* can_check_out leave it as it was also when they return Ok.
C17_ErrorsAndValidatorsKeepLedger ==
  [][/\ call'.op \in Validators => owner' = owner
     /\ (/\ call'.op \in Validators \cup {"deposit_asset", "withdraw_asset", "transfer_asset"}
         /\ result' \in Errors)
        => owner' = owner]_vars

C17_Witness ==
  /\ call.op = "withdraw_asset"
  /\ result = "FailedToTransactAsset"
  /\ OwnerOf(owner, call.what) # None
  /\ convert_location(call.who[1]) # None
  /\ OwnerOf(owner, call.what) # convert_location(call.who[1])

\* C18: check_in and check_out with an asset the Matcher rejects do nothing: the ledger
\* is as it was and no assertion fires, whatever the build, the tracking modes and the
\* checking account.
C18_UnmatchedCommitNoOp ==
  [][(call'.op \in Commits /\ matches_nonfungibles(call'.what) = None)
       => (owner' = owner /\ ok' /\ ~aborted' /\ result' = "()")]_vars

C18_Witness ==
  /\ call.op = "check_out"
  /\ matches_nonfungibles(call.what) = None
  /\ debug_assertions
  /\ CheckingAccount # None
  /\ ~aborted
  /\ Cardinality(OwnedItems(owner)) = Cardinality(Items)

\* C19: every operation changes the owner of at most one item, the one the Matcher
\* returns for its asset; every other item has the owner it had before the call.
C19_OnlyMatchedItemChanges ==
  [][\A item \in Items :
       matches_nonfungibles(call'.what) # Some(item) => owner'[item] = owner[item]]_vars

C19_Witness ==
  /\ call.op = "withdraw_asset"
  /\ result = "Ok"
  /\ OwnerOf(owner, call.what) = None
  /\ OwnedItems(owner) = Items \ {matches_nonfungibles(call.what)[1]}

====
